---- MODULE Spec2Model ----
(***************************************************************************)
(* Model of plonkish_backend/bin/hyperplonk_srs_generator.rs: the          *)
(* extraction-mode HyperPlonk SRS generator.  One run of main() is one     *)
(* behaviour: argument parsing, reading the ceremony file, extraction of   *)
(* the randomness, the doubling recursion that builds the equality tables  *)
(* (with its two data-parallel regions), the two fixed-base MSMs, and the  *)
(* export of the SRS file.                                                 *)
(*                                                                         *)
(* The scalar field is modelled by the integers modulo Modulus and a group *)
(* element by its discrete logarithm with respect to the group generator.  *)
(* The source file is an input: what each read returns is drawn when the   *)
(* read happens.                                                           *)
(***************************************************************************)
EXTENDS Integers, Sequences, FiniteSets, TLC

VARIABLES
    argv,           \* command-line arguments after the program name
    desired_k,      \* Option<u32>: None or <<v>>
    pc,             \* position in main()
    outcome,        \* "running", "success", or the kind of panic
    ioCount,        \* number of file operations performed so far
    k,              \* u32 read from the source file
    n,              \* 1 << k
    num_vars,       \* desired_k.unwrap()
    reprs,          \* the records read so far (filled prefix of the buffer)
    i,              \* loop index of the extraction loop
    random_source,  \* Vec<Scalar>
    eqs,            \* Vec<Vec<Scalar>>: the level tables
    evals,          \* the table under construction
    chunk,          \* chunk size of the running parallelize call
    wpos,           \* per chunk: number of elements its worker has done
    wcount,         \* per index of evals: number of writes it received
    eqsPts,         \* the regrouped G1 points
    ss,             \* the G2 points
    dstCreated,     \* the destination file exists
    outFile,        \* contents of the destination file, a sequence of items
    wi,             \* index of the write loops
    printed         \* the success line was printed

vars == <<argv, desired_k, pc, outcome, ioCount, k, n, num_vars, reprs, i,
          random_source, eqs, evals, chunk, wpos, wcount, eqsPts, ss,
          dstCreated, outFile, wi, printed>>

(***************************************************************************)
(* Bounds of the model.                                                    *)
(***************************************************************************)
Modulus == 7        \* order of the toy scalar field
MaxRecs == 4        \* records the source file holds at most
MaxK == 2           \* small values of k; KValues adds the overflowing ones
MaxEqVars == 3      \* levels built from a drawn RandomnessSequence
MaxThreads == 2     \* workers of one parallelize call

Bits == 32          \* width of u32

None == <<>>
Some(x) == <<x>>

Min(a, b) == IF a < b THEN a ELSE b

(***************************************************************************)
(* Scalar field arithmetic.                                                *)
(***************************************************************************)
Scalars == 0 .. (Modulus - 1)
Mul(a, b) == (a * b) % Modulus
Sub(a, b) == ((a + Modulus) - b) % Modulus
FE(x) == ((x % Modulus) + Modulus) % Modulus

\* A 32-byte representation, as the integer it encodes (little endian).
Reprs == 0 .. Modulus

\* Scalar::from_repr: Some for a canonical representation, None otherwise.
FromRepr(repr) == IF repr < Modulus THEN Some(repr) ELSE None

(***************************************************************************)
(* Arguments.                                                              *)
(***************************************************************************)
ArgChars == {"0", "1", "2", "3", "x"}
DigitOf == ("0" :> 0) @@ ("1" :> 1) @@ ("2" :> 2) @@ ("3" :> 3) @@ ("4" :> 4)
           @@ ("5" :> 5) @@ ("6" :> 6) @@ ("7" :> 7) @@ ("8" :> 8) @@ ("9" :> 9)

RECURSIVE ParseDigits(_, _)
ParseDigits(s, acc) ==
    IF s = <<>> THEN Some(acc)
    ELSE IF Head(s) \notin DOMAIN DigitOf THEN None
    ELSE ParseDigits(Tail(s), 10 * acc + DigitOf[Head(s)])

\* str::parse::<u32>().ok(); the strings drawn are too short to overflow.
ParseU32(s) == IF s = <<>> THEN None ELSE ParseDigits(s, 0)

\* The third argument: empty, or one character.
ArgStrings == {<<>>} \cup {<<c>> : c \in ArgChars}

\* The argument vectors: zero, one, two or three arguments.
Argvs == {<<>>, <<"src">>, <<"src", "dst">>}
         \cup {<<"src", "dst", a>> : a \in ArgStrings}

KValues == (0 .. MaxK) \cup {Bits - 2, Bits, Bits + 1}

(***************************************************************************)
(* The capacity check.                                                     *)
(***************************************************************************)
\* 1 << k in u32 once the shift amount is in range (k < Bits), and what a
\* build without overflow checks computes when it is not: the shift amount
\* is taken modulo the width.
Shl1(kk) == 2 ^ (kk % Bits)

\* Faulty variant: the check counts the two records of each point.
CapacityOkRecords(nn, nv) == nn >= nv \div 2

\* assert!(n >= num_vars)
CapacityOk(nn, nv) == nn >= nv

srcVars == <<k, n, num_vars, reprs, i, random_source>>
buildVars == <<eqs, evals, chunk, wpos, wcount>>
outVars == <<eqsPts, ss, dstCreated, outFile, wi, printed>>

Abort(kind) == pc' = "aborted" /\ outcome' = kind

Init ==
    /\ argv \in Argvs
    /\ desired_k = None
    /\ pc = "args"
    /\ outcome = "running"
    /\ ioCount = 0
    /\ k = 0
    /\ n = 0
    /\ num_vars = 0
    /\ reprs = <<>>
    /\ i = 0
    /\ random_source = <<>>
    /\ eqs = <<>>
    /\ evals = <<>>
    /\ chunk = 1
    /\ wpos = <<>>
    /\ wcount = <<>>
    /\ eqsPts = <<>>
    /\ ss = <<>>
    /\ dstCreated = FALSE
    /\ outFile = <<>>
    /\ wi = 0
    /\ printed = FALSE

\* Lines 27-33: the two expect()s and the parse of the third argument.
ParseArgs ==
    /\ pc = "args"
    /\ \/ /\ Len(argv) < 2
          /\ Abort("usage")
          /\ UNCHANGED desired_k
       \/ /\ Len(argv) >= 2
          /\ desired_k' = IF Len(argv) >= 3 THEN ParseU32(argv[3]) ELSE None
          /\ pc' = "open"
          /\ UNCHANGED outcome
    /\ UNCHANGED <<argv, ioCount, srcVars, buildVars, outVars>>

\* Line 39: File::open(src).expect(..)
OpenSrc ==
    /\ pc = "open"
    /\ ioCount' = ioCount + 1
    /\ \/ pc' = "read_header_size" /\ UNCHANGED outcome
       \/ Abort("open_failed")
    /\ UNCHANGED <<argv, desired_k, srcVars, buildVars, outVars>>

\* Lines 40-41: seek to HEADER_SIZE_OFFSET, read_u64.  The value read only
\* positions the next seek.
ReadHeaderSize ==
    /\ pc = "read_header_size"
    /\ ioCount' = ioCount + 2
    /\ \/ pc' = "read_k" /\ UNCHANGED outcome
       \/ Abort("io_error")
    /\ UNCHANGED <<argv, desired_k, srcVars, buildVars, outVars>>

\* Lines 43-45: seek to k_offset, read_u32.
ReadK ==
    /\ pc = "read_k"
    /\ ioCount' = ioCount + 2
    /\ \/ /\ \E kk \in KValues : k' = kk
          /\ pc' = "check"
          /\ UNCHANGED outcome
       \/ /\ Abort("io_error")
          /\ UNCHANGED k
    /\ UNCHANGED <<argv, desired_k, n, num_vars, reprs, i, random_source,
                   buildVars, outVars>>

\* Lines 49-55: n = 1 << k, num_vars = desired_k.unwrap(), the assert.
\* A shift by k >= Bits panics in a build with overflow checks and wraps
\* the shift amount in a build without them.
CheckCapacity ==
    /\ pc = "check"
    /\ \/ /\ k >= Bits
          /\ Abort("shift_overflow")
          /\ UNCHANGED <<n, num_vars>>
       \/ /\ n' = Shl1(k)
          /\ IF desired_k = None
                THEN Abort("usage") /\ UNCHANGED num_vars
                ELSE /\ num_vars' = desired_k[1]
                     /\ IF CapacityOk(n', num_vars')
                           THEN pc' = "seek_g1" /\ UNCHANGED outcome
                           ELSE Abort("too_small")
    /\ UNCHANGED <<argv, desired_k, ioCount, k, reprs, i, random_source,
                   buildVars, outVars>>

\* Line 58: the seek to the point region; its result is dropped.
SeekG1 ==
    /\ pc = "seek_g1"
    /\ ioCount' = ioCount + 1
    /\ pc' = "read_reprs"
    /\ UNCHANGED <<argv, desired_k, outcome, srcVars, buildVars, outVars>>

\* Lines 60-63: the buffer of 2 * n records, and read_exact into each of
\* them.  The file holds at most MaxRecs records: the loop ends only when
\* 2 * n of them are there, and any read may fail.
ReadReprs ==
    /\ pc = "read_reprs"
    /\ \/ /\ n <= MaxRecs
          /\ 2 * n <= MaxRecs
          /\ \E buf \in [1 .. 2 * n -> Reprs] : reprs' = buf
          /\ ioCount' = ioCount + 2 * n
          /\ pc' = "extract"
          /\ i' = 0
          /\ UNCHANGED outcome
       \/ /\ Abort("io_error")
          /\ ioCount' = ioCount + 1
          /\ UNCHANGED <<reprs, i>>
    /\ UNCHANGED <<argv, desired_k, k, n, num_vars, random_source,
                   buildVars, outVars>>

\* Faulty variant: a record that fails to decode is skipped.
PushScalarSkipping(rs, repr) ==
    IF FromRepr(repr) = None THEN [ok |-> TRUE, rs |-> rs]
    ELSE [ok |-> TRUE, rs |-> Append(rs, FromRepr(repr)[1])]

\* Line 71: random_source.push(from_repr(repr).unwrap())
PushScalar(rs, repr) ==
    IF FromRepr(repr) = None THEN [ok |-> FALSE, rs |-> rs]
    ELSE [ok |-> TRUE, rs |-> Append(rs, FromRepr(repr)[1])]

\* Lines 65-73: one iteration of the extraction loop, or its end.
Extract ==
    /\ pc = "extract"
    /\ \/ /\ i = 2 * num_vars
          /\ pc' = "build"
          /\ UNCHANGED <<outcome, i, random_source>>
       \/ /\ i < 2 * num_vars
          /\ IF i >= Len(reprs)
                THEN Abort("index_out_of_bounds") /\ UNCHANGED <<i, random_source>>
                ELSE IF i % 2 = 0
                THEN LET r == PushScalar(random_source, reprs[i + 1]) IN
                     IF r.ok
                        THEN /\ random_source' = r.rs
                             /\ i' = i + 1
                             /\ UNCHANGED <<pc, outcome>>
                        ELSE Abort("malformed") /\ UNCHANGED <<i, random_source>>
                ELSE /\ i' = i + 1
                     /\ UNCHANGED <<pc, outcome, random_source>>
    /\ UNCHANGED <<argv, desired_k, ioCount, k, n, num_vars, reprs,
                   buildVars, outVars>>

(***************************************************************************)
(* The equality tables (lines 79-99).                                      *)
(***************************************************************************)
\* Faulty variant: the first table holds ZERO.
Level0Zero == <<0>>

\* Line 81: vec![Scalar::ONE]
Level0 == <<1>>

\* Faulty variant: the multiplication by s_i is left out.
EvalHiCopy(s_i, last_eval) == last_eval

\* Line 91: *eval_hi = *s_i * last_eval
EvalHi(s_i, last_eval) == Mul(s_i, last_eval)

\* Faulty variant: the high half is not subtracted.
EvalLoCopy(last_eval, eval_hi) == last_eval

\* Line 95: *eval_lo = *last_eval - eval_hi
EvalLo(last_eval, eval_hi) == Sub(last_eval, eval_hi)

\* Faulty variant: the slice is not advanced to the chunk's start.
ZipIndexNoStart(start, t) == t

\* Lines 90 and 94: the t-th element of a chunk is zipped with element
\* start + t of evals_hi and of last_evals (the slices [start..]).
ZipIndex(start, t) == start + t

\* parallelize: the slice is cut into at most MaxThreads contiguous chunks
\* of one size (the last may be shorter); each chunk goes to one worker
\* with its start.
NumChunks(len, cs) == (len + cs - 1) \div cs
ChunkStart(cs, c) == (c - 1) * cs
ChunkLen(len, cs, c) == Min(cs, len - ChunkStart(cs, c))
ChunkSizes(len) == {cs \in 1 .. len : NumChunks(len, cs) <= MaxThreads}
AllJoined(len) == \A c \in DOMAIN wpos : wpos[c] = ChunkLen(len, chunk, c)

LastEvals == eqs[Len(eqs)]
CurScalar == random_source[Len(eqs)]

\* Lines 80-81: the vector of tables starts with level 0.
StartEqs ==
    /\ pc = "build"
    /\ eqs' = <<Level0>>
    /\ pc' = "level"
    /\ UNCHANGED <<argv, desired_k, outcome, ioCount, srcVars, evals, chunk,
                   wpos, wcount, outVars>>

\* Lines 83-89: the next scalar, the zeroed table of twice the length, and
\* the fan-out of the high half; or the end of the loop.
StartLevel ==
    /\ pc = "level"
    /\ \/ /\ Len(eqs) = Len(random_source) + 1
          /\ pc' = "msm_g1"
          /\ UNCHANGED <<evals, chunk, wpos, wcount>>
       \/ /\ Len(eqs) <= Len(random_source)
          /\ evals' = [j \in 1 .. 2 * Len(LastEvals) |-> 0]
          /\ wcount' = [j \in 1 .. 2 * Len(LastEvals) |-> 0]
          /\ \E cs \in ChunkSizes(Len(LastEvals)) :
                /\ chunk' = cs
                /\ wpos' = [c \in 1 .. NumChunks(Len(LastEvals), cs) |-> 0]
          /\ pc' = "hi"
    /\ UNCHANGED <<argv, desired_k, outcome, ioCount, srcVars, eqs, outVars>>

\* Lines 89-92: the worker of chunk c of evals_hi does its next element.
HiStep(c) ==
    /\ pc = "hi"
    /\ wpos[c] < ChunkLen(Len(LastEvals), chunk, c)
    /\ LET len == Len(LastEvals)
           start == ChunkStart(chunk, c)
           dst == len + start + wpos[c] + 1
           src == ZipIndex(start, wpos[c]) + 1
       IN /\ evals' = [evals EXCEPT ![dst] = EvalHi(CurScalar, LastEvals[src])]
          /\ wcount' = [wcount EXCEPT ![dst] = @ + 1]
    /\ wpos' = [wpos EXCEPT ![c] = @ + 1]
    /\ UNCHANGED <<argv, desired_k, pc, outcome, ioCount, srcVars, eqs, chunk,
                   outVars>>

\* Lines 92-93: parallelize returns when every worker is done; then the
\* fan-out of the low half.
JoinHi ==
    /\ pc = "hi"
    /\ AllJoined(Len(LastEvals))
    /\ \E cs \in ChunkSizes(Len(LastEvals)) :
          /\ chunk' = cs
          /\ wpos' = [c \in 1 .. NumChunks(Len(LastEvals), cs) |-> 0]
    /\ pc' = "lo"
    /\ UNCHANGED <<argv, desired_k, outcome, ioCount, srcVars, eqs, evals,
                   wcount, outVars>>

\* Lines 93-96: the worker of chunk c of evals_lo does its next element.
LoStep(c) ==
    /\ pc = "lo"
    /\ wpos[c] < ChunkLen(Len(LastEvals), chunk, c)
    /\ LET len == Len(LastEvals)
           start == ChunkStart(chunk, c)
           dst == start + wpos[c] + 1
           src == ZipIndex(start, wpos[c]) + 1
       IN /\ evals' = [evals EXCEPT
                          ![dst] = EvalLo(LastEvals[src], evals[len + src])]
          /\ wcount' = [wcount EXCEPT ![dst] = @ + 1]
    /\ wpos' = [wpos EXCEPT ![c] = @ + 1]
    /\ UNCHANGED <<argv, desired_k, pc, outcome, ioCount, srcVars, eqs, chunk,
                   outVars>>

\* Lines 96-98: the second parallelize returns; eqs.push(evals).
JoinLo ==
    /\ pc = "lo"
    /\ AllJoined(Len(LastEvals))
    /\ eqs' = Append(eqs, evals)
    /\ evals' = <<>>
    /\ wpos' = <<>>
    /\ pc' = "level"
    /\ UNCHANGED <<argv, desired_k, outcome, ioCount, srcVars, chunk, wcount,
                   outVars>>
(***************************************************************************)
(* The two MSMs and the regrouping (lines 101-122).                        *)
(***************************************************************************)
G1Gen == [grp |-> "G1", dlog |-> 1]
G2Gen == [grp |-> "G2", dlog |-> 1]

ScalarMul(s, P) == [grp |-> P.grp, dlog |-> Mul(s, P.dlog)]

\* fixed_base_msm followed by batch_projective_to_affine: one point
\* scalar * base per scalar, in order.  The window size changes the cost,
\* not the points.
FixedBaseMsm(base, scalars) ==
    [j \in 1 .. Len(scalars) |-> ScalarMul(scalars[j], base)]

\* Lines 108 and 129: flat_map over the levels.
RECURSIVE Flatten(_)
Flatten(levels) ==
    IF levels = <<>> THEN <<>> ELSE Head(levels) \o Flatten(Tail(levels))

\* Faulty variant: level idx takes idx + 1 points.
LevelSizeLinear(idx) == idx + 1

\* Line 113: 1 << idx
LevelSize(idx) == 2 ^ idx

\* Lines 111-114: for idx in 0..num_vars + 1, take(1 << idx) from the drain.
RECURSIVE Regroup(_, _, _)
Regroup(rest, idx, nv) ==
    IF idx > nv THEN <<>>
    ELSE LET sz == Min(LevelSize(idx), Len(rest)) IN
         <<SubSeq(rest, 1, sz)>> \o Regroup(SubSeq(rest, sz + 1, Len(rest)), idx + 1, nv)

\* Lines 101-115.
MsmG1 ==
    /\ pc = "msm_g1"
    /\ eqsPts' = Regroup(FixedBaseMsm(G1Gen, Flatten(eqs)), 0, num_vars)
    /\ pc' = "msm_g2"
    /\ UNCHANGED <<argv, desired_k, outcome, ioCount, srcVars, buildVars, ss,
                   dstCreated, outFile, wi, printed>>

\* Lines 117-122.
MsmG2 ==
    /\ pc = "msm_g2"
    /\ ss' = FixedBaseMsm(G2Gen, random_source)
    /\ pc' = "create"
    /\ UNCHANGED <<argv, desired_k, outcome, ioCount, srcVars, buildVars,
                   eqsPts, dstCreated, outFile, wi, printed>>

(***************************************************************************)
(* The export (lines 125-137).                                             *)
(***************************************************************************)
\* u32::to_le_bytes
ToLeBytes(x) == <<x % 256, (x \div 256) % 256, (x \div 65536) % 256,
                  (x \div 16777216) % 256>>

U32Item(x) == [tag |-> "u32le", val |-> ToLeBytes(x)]

\* write_raw: the encoding of a point determines the point.
RawItem(P) == [tag |-> P.grp, val |-> P.dlog]

\* What a failed write may leave behind.
Partial == [tag |-> "partial", val |-> 0]

\* Faulty variant: the Result of the write is dropped.
OnWriteErrorIgnored(nextpc) == [pc |-> nextpc, outcome |-> "running"]

\* .unwrap() on the Result of a write: a failure panics.
OnWriteError(nextpc) == [pc |-> "aborted", outcome |-> "write_failed"]

\* One write_all / write_raw call and the unwrap of its result.
Write(item, nextpc, nextwi) ==
    /\ ioCount' = ioCount + 1
    /\ \/ /\ outFile' = Append(outFile, item)
          /\ pc' = nextpc
          /\ wi' = nextwi
          /\ UNCHANGED outcome
       \/ /\ outFile' \in {outFile, Append(outFile, Partial)}
          /\ pc' = OnWriteError(nextpc).pc
          /\ outcome' = OnWriteError(nextpc).outcome
          /\ wi' = IF OnWriteError(nextpc).pc = "aborted" THEN wi ELSE nextwi
    /\ UNCHANGED <<argv, desired_k, srcVars, buildVars, eqsPts, ss,
                   dstCreated, printed>>

\* Line 125: File::create(..).unwrap()
CreateDst ==
    /\ pc = "create"
    /\ ioCount' = ioCount + 1
    /\ \/ /\ dstCreated' = TRUE
          /\ outFile' = <<>>
          /\ pc' = "write_num_vars"
          /\ UNCHANGED outcome
       \/ /\ Abort("create_failed")
          /\ UNCHANGED <<dstCreated, outFile>>
    /\ UNCHANGED <<argv, desired_k, srcVars, buildVars, eqsPts, ss, wi, printed>>

\* Line 126.
WriteNumVars == pc = "write_num_vars" /\ Write(U32Item(num_vars), "write_g1", 0)

\* Line 127.
WriteG1 == pc = "write_g1" /\ Write(RawItem(G1Gen), "write_eqs", 0)

\* Lines 129-131: one iteration of the loop over the flattened points, or
\* its end.
WriteEq ==
    /\ pc = "write_eqs"
    /\ \/ /\ wi < Len(Flatten(eqsPts))
          /\ Write(RawItem(Flatten(eqsPts)[wi + 1]), "write_eqs", wi + 1)
       \/ /\ wi >= Len(Flatten(eqsPts))
          /\ pc' = "write_g2"
          /\ wi' = 0
          /\ UNCHANGED <<argv, desired_k, outcome, ioCount, srcVars, buildVars,
                         eqsPts, ss, dstCreated, outFile, printed>>

\* Line 132.
WriteG2 == pc = "write_g2" /\ Write(RawItem(G2Gen), "write_ss", 0)

\* Lines 133-135: one iteration of the loop over ss, or its end.
WriteS ==
    /\ pc = "write_ss"
    /\ \/ /\ wi < Len(ss)
          /\ Write(RawItem(ss[wi + 1]), "write_ss", wi + 1)
       \/ /\ wi >= Len(ss)
          /\ pc' = "print"
          /\ UNCHANGED <<argv, desired_k, outcome, ioCount, srcVars, buildVars,
                         eqsPts, ss, dstCreated, outFile, wi, printed>>

\* Line 137.
PrintSuccess ==
    /\ pc = "print"
    /\ printed' = TRUE
    /\ outcome' = "success"
    /\ pc' = "done"
    /\ UNCHANGED <<argv, desired_k, ioCount, srcVars, buildVars, eqsPts, ss,
                   dstCreated, outFile, wi>>

BuildNext ==
    \/ StartEqs
    \/ StartLevel
    \/ \E c \in DOMAIN wpos : HiStep(c)
    \/ JoinHi
    \/ \E c \in DOMAIN wpos : LoStep(c)
    \/ JoinLo

Next ==
    \/ ParseArgs
    \/ OpenSrc
    \/ ReadHeaderSize
    \/ ReadK
    \/ CheckCapacity
    \/ SeekG1
    \/ ReadReprs
    \/ Extract
    \/ BuildNext
    \/ MsmG1
    \/ MsmG2
    \/ CreateDst
    \/ WriteNumVars
    \/ WriteG1
    \/ WriteEq
    \/ WriteG2
    \/ WriteS
    \/ PrintSuccess

Spec == Init /\ [][Next]_vars

(***************************************************************************)
(* The tensor builder on its own: the state main() is in when the          *)
(* extraction loop has ended, for every RandomnessSequence of at most      *)
(* MaxEqVars scalars, and the steps of lines 79-99.                        *)
(***************************************************************************)
DigitChar(d) == CHOOSE c \in DOMAIN DigitOf : DigitOf[c] = d

RECURSIVE ToDecimal(_)
ToDecimal(x) ==
    IF x < 10 THEN <<DigitChar(x)>>
    ELSE ToDecimal(x \div 10) \o <<DigitChar(x % 10)>>

\* The least k with 2^k >= nv.
LeastK(nv) == CHOOSE kk \in 0 .. nv : 2 ^ kk >= nv /\ \A j \in 0 .. (kk - 1) : 2 ^ j < nv

InitEqs ==
    /\ random_source \in UNION {[1 .. len -> Scalars] : len \in 0 .. MaxEqVars}
    /\ num_vars = Len(random_source)
    /\ desired_k = Some(num_vars)
    /\ argv = <<"src", "dst", ToDecimal(num_vars)>>
    /\ k = LeastK(num_vars)
    /\ n = 2 ^ k
    /\ reprs = [j \in 1 .. 2 * n |->
                   IF j % 2 = 1 /\ (j + 1) \div 2 <= num_vars
                      THEN random_source[(j + 1) \div 2] ELSE 0]
    /\ i = 2 * num_vars
    /\ ioCount = 6 + 2 * n
    /\ pc = "build"
    /\ outcome = "running"
    /\ eqs = <<>>
    /\ evals = <<>>
    /\ chunk = 1
    /\ wpos = <<>>
    /\ wcount = <<>>
    /\ eqsPts = <<>>
    /\ ss = <<>>
    /\ dstCreated = FALSE
    /\ outFile = <<>>
    /\ wi = 0
    /\ printed = FALSE

SpecEqs == InitEqs /\ [][BuildNext]_vars

(***************************************************************************)
(* Properties of the tensor builder.                                       *)
(***************************************************************************)
\* Bit i (from the least significant) of idx.
Bit(idx, b) == (idx \div (2 ^ b)) % 2

\* The product over the positions 1 .. upto of s_i if the bit of idx is 1,
\* of 1 - s_i otherwise, with s_0 on the least significant bit.
RECURSIVE EqProduct(_, _, _)
EqProduct(rs, idx, upto) ==
    IF upto = 0 THEN 1
    ELSE Mul(EqProduct(rs, idx, upto - 1),
             IF Bit(idx, upto - 1) = 1 THEN rs[upto] ELSE Sub(1, rs[upto]))

RECURSIVE SumSeq(_)
SumSeq(xs) == IF xs = <<>> THEN 0 ELSE (Head(xs) + SumSeq(Tail(xs))) % Modulus

BuildDone == eqs # <<>> /\ Len(eqs) = num_vars + 1

\* C1: the final table (level num_vars) has 2^num_vars entries, and its
\* entry at index idx is the product over i of s_i if bit i of idx (least
\* significant first) is 1, of 1 - s_i otherwise.
C1_FinalTableIsEqBasis ==
    BuildDone =>
        /\ Len(eqs[num_vars + 1]) = 2 ^ num_vars
        /\ \A idx \in 0 .. (2 ^ num_vars - 1) :
              eqs[num_vars + 1][idx + 1] = EqProduct(random_source, idx, num_vars)

C1_Witness ==
    /\ BuildDone
    /\ num_vars = 3
    /\ random_source = <<2, 3, 5>>
    /\ eqs[4][4] = FE(2 * 3 * (1 - 5))

\* C2 as stated: with s_0 = 3 and s_1 = 5 the level-1 table is [-2, 3] and
\* the stored level-2 table is [8, -10, -12, 15].
C2_Original ==
    (random_source = <<3, 5>> /\ Len(eqs) = 3) =>
        /\ eqs[2] = <<FE(-2), FE(3)>>
        /\ eqs[3] = <<FE(8), FE(-10), FE(-12), FE(15)>>

\* C2 amended: with s_0 = 3 and s_1 = 5 the level-1 table is [-2, 3] and
\* the stored level-2 table is [8, -12, -10, 15]: s_0 selects the low bit
\* of the index.
C2_StoredOrder ==
    /\ (random_source = <<3, 5>> /\ Len(eqs) >= 2) => eqs[2] = <<FE(-2), FE(3)>>
    /\ (random_source = <<3, 5>> /\ Len(eqs) >= 3) =>
          eqs[3] = <<FE(8), FE(-12), FE(-10), FE(15)>>

C2_Witness == random_source = <<3, 5>> /\ Len(eqs) = 3 /\ pc = "msm_g1"

\* C3: whatever prefix of the scalars was processed, level 0 is [1], level
\* lv has 2^lv entries and the entries of every level sum to 1.
C3_PartitionOfUnity ==
    eqs # <<>> =>
        /\ eqs[1] = <<1>>
        /\ \A lv \in 1 .. Len(eqs) :
              /\ Len(eqs[lv]) = 2 ^ (lv - 1)
              /\ SumSeq(eqs[lv]) = 1

C3_Witness ==
    /\ Len(eqs) = 3
    /\ num_vars = 3
    /\ pc = "hi"
    /\ \A j \in 1 .. 2 : random_source[j] \notin {0, 1}

\* The level after table E for scalar s, computed index by index.
SeqLevel(E, s) ==
    [j \in 1 .. 2 * Len(E) |->
        IF j <= Len(E) THEN Sub(E[j], Mul(s, E[j])) ELSE Mul(s, E[j - Len(E)])]

\* C9: no index of a table is written twice, the low half is computed only
\* when every entry of the high half is written, and every table pushed is
\* the one function of the previous table and the scalar, whatever the
\* chunks and the order of the workers' steps.
C9_ParallelDeterminism ==
    /\ \A j \in DOMAIN wcount : wcount[j] <= 1
    /\ pc = "lo" =>
          \A j \in (Len(LastEvals) + 1) .. (2 * Len(LastEvals)) : wcount[j] = 1
    /\ \A lv \in 2 .. Len(eqs) :
          eqs[lv] = SeqLevel(eqs[lv - 1], random_source[lv - 1])

C9_Witness ==
    /\ pc = "lo"
    /\ Len(eqs) = 3
    /\ Len(wpos) = 2
    /\ wpos[1] = 0
    /\ wpos[2] = 2
    /\ random_source[1] \notin {0, 1}
    /\ random_source[2] \notin {0, 1}

(***************************************************************************)
(* Properties of a run of main().                                          *)
(***************************************************************************)
\* The scalar at position p (from 0) of the flattened tables: entry
\* p - (2^lv - 1) of level lv, where 2^lv - 1 <= p < 2^(lv + 1) - 1.
FlatScalar(rs, p) ==
    LET lv == CHOOSE l \in 0 .. Len(rs) : 2 ^ l - 1 <= p /\ p < 2 ^ (l + 1) - 1
    IN EqProduct(rs, p - (2 ^ lv - 1), lv)

ExpectedFile(nv, rs) ==
    <<[tag |-> "u32le", val |-> <<nv, 0, 0, 0>>], [tag |-> "G1", val |-> 1]>>
    \o [p \in 1 .. (2 ^ (nv + 1) - 1) |-> [tag |-> "G1", val |-> FlatScalar(rs, p - 1)]]
    \o <<[tag |-> "G2", val |-> 1]>>
    \o [j \in 1 .. nv |-> [tag |-> "G2", val |-> rs[j]]]

TagCount(file, t) == Cardinality({j \in DOMAIN file : file[j].tag = t})

\* C4: the file of a successful run is num_vars, the G1 generator, the
\* 2^(num_vars + 1) - 1 points scalar_p * g1 of the flattened tables in
\* level-major order, the G2 generator and the num_vars points s_i * g2, in
\* this order and nothing else; for num_vars = 0, one table point and no
\* power point.
C4_FileLayout ==
    outcome = "success" =>
        /\ outFile = ExpectedFile(num_vars, random_source)
        /\ Len(random_source) = num_vars
        /\ TagCount(outFile, "G1") = 1 + (2 ^ (num_vars + 1) - 1)
        /\ TagCount(outFile, "G2") = 1 + num_vars
        /\ num_vars = 0 =>
              outFile = <<[tag |-> "u32le", val |-> <<0, 0, 0, 0>>],
                          [tag |-> "G1", val |-> 1], [tag |-> "G1", val |-> 1],
                          [tag |-> "G2", val |-> 1]>>

C4_Witness ==
    /\ outcome = "success"
    /\ num_vars = 2
    /\ random_source = <<3, 5>>
    /\ Len(outFile) = 12

\* The capacity check was reached and its shift evaluated.
ShiftDone == n # 0

\* C5: when the k read from the source has 2^k < num_vars, the run ends in
\* the source-too-small failure at the check: no record is read, no table
\* is built and the destination file is never created.
C5_TooSmallRejected ==
    (ShiftDone /\ desired_k # None /\ k < Bits /\ 2 ^ k < desired_k[1]) =>
        /\ pc = "aborted"
        /\ outcome = "too_small"
        /\ reprs = <<>>
        /\ eqs = <<>>
        /\ ~dstCreated
        /\ outFile = <<>>
        /\ ~printed

C5_Witness == outcome = "too_small" /\ k = 1 /\ desired_k = <<3>> /\ ioCount = 5

\* The third argument is missing or does not parse, or an earlier one is
\* missing.
ArgsBad == Len(argv) < 3 \/ ParseU32(argv[3]) = None

\* C6 as stated: with a missing or unparseable argument no file operation
\* is performed, and the run ends in the usage error.
C6_UsageErrorBeforeIO ==
    ArgsBad => /\ ioCount = 0
               /\ pc = "aborted" => outcome = "usage"

\* Record 2 * j (from 0) of the buffer does not decode.
Malformed(j) == reprs[2 * j + 1] >= Modulus

\* C7: every scalar of random_source is the canonical value of its
\* even-indexed record, and when a record consumed as a scalar does not
\* decode the run never gets past the extraction loop: it aborts there
\* with random_source incomplete, and no destination file is created.
C7_MalformedAborts ==
    /\ reprs # <<>> =>
          \A j \in 1 .. Len(random_source) :
              /\ reprs[2 * j - 1] < Modulus
              /\ random_source[j] = reprs[2 * j - 1]
    /\ (reprs # <<>> /\ \E j \in 0 .. (num_vars - 1) : Malformed(j)) =>
          /\ pc \in {"extract", "aborted"}
          /\ pc = "aborted" => outcome = "malformed"
          /\ Len(random_source) < num_vars
          /\ \A j \in 0 .. (Len(random_source) - 1) : ~Malformed(j)
          /\ eqs = <<>>
          /\ ~dstCreated
          /\ ~printed

C7_Witness ==
    /\ outcome = "malformed"
    /\ num_vars = 2
    /\ random_source = <<3>>
    /\ Malformed(1)

RECURSIVE IsPrefix(_, _)
IsPrefix(a, b) ==
    \/ a = <<>>
    \/ /\ b # <<>>
       /\ Head(a) = Head(b)
       /\ IsPrefix(Tail(a), Tail(b))

\* The file without the fragment a failed write may have left at its end.
Clean(file) ==
    IF file # <<>> /\ file[Len(file)] = Partial
       THEN SubSeq(file, 1, Len(file) - 1) ELSE file

FullLen == 2 + (2 ^ (num_vars + 1) - 1) + 1 + num_vars

\* C8: the success line is printed only when all five sections are in the
\* file; when the creation fails nothing is written, when a write fails
\* the run stops there with the sections written so far and nothing of a
\* later one, and in neither case is the success line printed.
C8_SuccessOnlyAfterAllWrites ==
    /\ printed =>
          /\ outcome = "success"
          /\ Len(outFile) = FullLen
          /\ outFile[1].tag = "u32le"
          /\ \A j \in 2 .. (2 ^ (num_vars + 1) + 1) : outFile[j].tag = "G1"
          /\ \A j \in (2 ^ (num_vars + 1) + 2) .. FullLen : outFile[j].tag = "G2"
    /\ outcome = "create_failed" => ~dstCreated /\ outFile = <<>> /\ ~printed
    /\ outcome = "write_failed" =>
          /\ pc = "aborted"
          /\ ~printed
          /\ Len(Clean(outFile)) < FullLen
          /\ IsPrefix(Clean(outFile), ExpectedFile(num_vars, random_source))
    /\ outcome \notin {"running", "success"} => pc = "aborted" /\ ~printed

C8_Witness ==
    /\ outcome = "write_failed"
    /\ num_vars = 2
    /\ Len(outFile) = 6
    /\ outFile[6] = Partial

\* C10 as stated: once the check is done it has passed exactly when 2^k,
\* as a number, is at least num_vars (so always when k >= Bits), and the
\* extraction loop reads inside the buffer.
C10_CapacityCheckExact ==
    /\ (desired_k # None /\ (ShiftDone \/ outcome = "shift_overflow")) =>
          ((outcome \notin {"too_small", "shift_overflow"})
              <=> (k >= Bits \/ 2 ^ k >= desired_k[1]))
    /\ (pc = "extract" /\ i < 2 * num_vars) => i < Len(reprs)

====
